---- MODULE Spec2Model ----
(***************************************************************************)
(* Model of the mapping loader and the text rewriter of vulture's           *)
(* mod_deobfuscator.py (MCPMappingLoader, ModDeobfuscator).                 *)
(*                                                                         *)
(* Texts, mapping lines, keys and values are strings; the regular          *)
(* expressions of apply_mappings_to_java are matched character by          *)
(* character with the greedy, backtracking, leftmost, non-overlapping      *)
(* semantics of Python's re.sub.  A dict is a sequence of [k, v] records   *)
(* in insertion order (Python dicts iterate in insertion order and an      *)
(* assignment to an existing key keeps the key's position).                *)
(***************************************************************************)
EXTENDS Integers, Sequences, FiniteSets, TLC

\* mappings, reverse_mappings : the dicts of the MCPMappingLoader
\* decompiled_dir, deobfuscated_dir : the fields of the ModDeobfuscator
\* fs            : the source trees on disk, directory -> relative path -> file
\* mapping_files : the mapping files on disk, name -> text
\* calls         : the number of calls made so far
\* ret           : the last call, its result and the exception it raised
\* mc_version    : the field mc_version of the ModDeobfuscator
\* argv          : sys.argv, <<>> when the object is not built by main
\* detected      : what VersionDetector.detect() gives for the JAR
VARIABLES mappings, reverse_mappings, decompiled_dir, deobfuscated_dir, fs,
          mapping_files, calls, ret, mc_version, argv, detected

vars == <<mappings, reverse_mappings, decompiled_dir, deobfuscated_dir, fs,
          mapping_files, calls, ret, mc_version, argv, detected>>

(***************************************************************************)
(* Characters                                                              *)
(***************************************************************************)
WordChars ==
  {"a","b","c","d","e","f","g","h","i","j","k","l","m","n","o","p","q","r",
   "s","t","u","v","w","x","y","z",
   "A","B","C","D","E","F","G","H","I","J","K","L","M","N","O","P","Q","R",
   "S","T","U","V","W","X","Y","Z",
   "0","1","2","3","4","5","6","7","8","9","_"}

SpaceChars == {" ", "\t", "\n", "\r", "\f"}

Ch(s, i) == IF i >= 1 /\ i <= Len(s) THEN SubSeq(s, i, i) ELSE ""

IsWord(c) == c \in WordChars

IsSpace(c) == c \in SpaceChars

(***************************************************************************)
(* str methods used by the source                                          *)
(***************************************************************************)
StartsWith(s, p) == Len(p) <= Len(s) /\ SubSeq(s, 1, Len(p)) = p

EndsWith(s, p) == Len(p) <= Len(s) /\ SubSeq(s, Len(s) - Len(p) + 1, Len(s)) = p

Min(S) == CHOOSE x \in S : \A y \in S : x <= y

\* first index >= i at which sub occurs in s, 0 when there is none (str.find)
FindFrom(s, sub, i) ==
  LET hits == {j \in i..(Len(s) - Len(sub) + 1) : SubSeq(s, j, j + Len(sub) - 1) = sub}
  IN IF hits = {} THEN 0 ELSE Min(hits)

\* sub in s
Contains(s, sub) == FindFrom(s, sub, 1) # 0

\* s.split(sep): every piece between occurrences of sep
RECURSIVE SplitOn(_, _)
SplitOn(s, sep) ==
  LET i == FindFrom(s, sep, 1)
  IN IF i = 0 THEN <<s>>
     ELSE <<SubSeq(s, 1, i - 1)>> \o SplitOn(SubSeq(s, i + Len(sep), Len(s)), sep)

\* s.split(sep, 1): at most one split, at the first occurrence of sep
SplitOnce(s, sep) ==
  LET i == FindFrom(s, sep, 1)
  IN IF i = 0 THEN <<s>>
     ELSE <<SubSeq(s, 1, i - 1), SubSeq(s, i + Len(sep), Len(s))>>

\* number of consecutive characters of class cs in s from position p on
Run(s, p, cs) ==
  IF p > Len(s) THEN 0
  ELSE CHOOSE n \in 0..(Len(s) - p + 1) :
         /\ \A i \in p..(p + n - 1) : Ch(s, i) \in cs
         /\ Ch(s, p + n) \notin cs

\* number of consecutive characters of class cs in s from its end backwards
RunBack(s, cs) ==
  CHOOSE n \in 0..Len(s) :
    /\ \A i \in (Len(s) - n + 1)..Len(s) : Ch(s, i) \in cs
    /\ Ch(s, Len(s) - n) \notin cs

\* s.lstrip(chars) / s.rstrip(chars) / s.strip(chars) for a set of characters
LStrip(s, cs) == SubSeq(s, Run(s, 1, cs) + 1, Len(s))

RStrip(s, cs) == SubSeq(s, 1, Len(s) - RunBack(s, cs))

Strip(s, cs) == RStrip(LStrip(s, cs), cs)

\* s.split(): the maximal runs of non-whitespace characters
RECURSIVE SplitWs(_)
SplitWs(s) ==
  LET t == LStrip(s, SpaceChars)
      n == CHOOSE k \in 0..Len(t) :
             /\ \A i \in 1..k : ~IsSpace(Ch(t, i))
             /\ (k = Len(t) \/ IsSpace(Ch(t, k + 1)))
  IN IF Len(t) = 0 THEN <<>>
     ELSE <<SubSeq(t, 1, n)>> \o SplitWs(SubSeq(t, n + 1, Len(t)))

\* Python's None where a str or a Path is expected; no input holds this string
None == "<None>"

(***************************************************************************)
(* dict: a sequence of [k, v] records with distinct keys                   *)
(***************************************************************************)
DictHas(d, key) == \E i \in 1..Len(d) : d[i].k = key

\* d.get(key, default)
DictGet(d, key, default) ==
  IF DictHas(d, key) THEN d[CHOOSE i \in 1..Len(d) : d[i].k = key].v ELSE default

\* DictSet keeping the value a key already has
DictSetFirst(d, key, value) ==
  IF DictHas(d, key) THEN d ELSE Append(d, [k |-> key, v |-> value])

\* d[key] = value
DictSet(d, key, value) ==
  IF DictHas(d, key)
  THEN [i \in 1..Len(d) |-> IF d[i].k = key THEN [k |-> key, v |-> value] ELSE d[i]]
  ELSE Append(d, [k |-> key, v |-> value])

(***************************************************************************)
(* re: the pattern elements the source uses                                *)
(*   B        \b         word boundary                                     *)
(*   Lit(x)   re.escape(x) or literal pattern text                         *)
(*   Sp       \s+                                                          *)
(*   So       \s*                                                          *)
(*   Wg       (\w+)      the capturing group                               *)
(***************************************************************************)
B == [t |-> "b", s |-> ""]

Lit(x) == [t |-> "lit", s |-> x]

Sp == [t |-> "sp", s |-> ""]

So == [t |-> "so", s |-> ""]

Wg == [t |-> "wg", s |-> ""]

NoMatch == [e |-> 0, gs |-> 0, ge |-> 0]

\* \b at position p: exactly one of s[p-1], s[p] is a word character
WordBoundary(s, p) == IsWord(Ch(s, p - 1)) # IsWord(Ch(s, p))

\* Match pat[j..] against s at position p.  Result: e is the position after
\* the match (0: no match), gs..ge-1 is the text captured by the group.
\* Quantifiers are greedy and give characters back one at a time.
RECURSIVE MatchAt(_, _, _, _, _)
RECURSIVE Greedy(_, _, _, _, _, _, _)
MatchAt(pat, j, s, p, g) ==
  IF j > Len(pat) THEN [e |-> p, gs |-> g[1], ge |-> g[2]]
  ELSE LET el == pat[j]
       IN CASE el.t = "b" ->
                 IF WordBoundary(s, p) THEN MatchAt(pat, j + 1, s, p, g) ELSE NoMatch
            [] el.t = "lit" ->
                 IF p + Len(el.s) - 1 <= Len(s) /\ SubSeq(s, p, p + Len(el.s) - 1) = el.s
                 THEN MatchAt(pat, j + 1, s, p + Len(el.s), g)
                 ELSE NoMatch
            [] el.t = "sp" -> Greedy(pat, j, s, p, g, Run(s, p, SpaceChars), 1)
            [] el.t = "so" -> Greedy(pat, j, s, p, g, Run(s, p, SpaceChars), 0)
            [] el.t = "wg" -> Greedy(pat, j, s, p, g, Run(s, p, WordChars), 1)

Greedy(pat, j, s, p, g, n, min) ==
  IF n < min THEN NoMatch
  ELSE LET r == MatchAt(pat, j + 1, s, p + n, IF pat[j].t = "wg" THEN <<p, p + n>> ELSE g)
       IN IF r.e # 0 THEN r ELSE Greedy(pat, j, s, p, g, n - 1, min)

\* re.sub(pat, repl, s): the leftmost non-overlapping matches, found left to
\* right, are replaced by repl.text followed by the group when repl.group
\* (the template '... \1').  Every pattern of the source consumes at least
\* one character, so no match is empty.
RECURSIVE SubFrom(_, _, _, _)
SubFrom(pat, repl, s, pos) ==
  LET starts == {i \in pos..Len(s) : MatchAt(pat, 1, s, i, <<0, 0>>).e > i}
  IN IF starts = {} THEN SubSeq(s, pos, Len(s))
     ELSE LET i == Min(starts)
              r == MatchAt(pat, 1, s, i, <<0, 0>>)
          IN SubSeq(s, pos, i - 1) \o repl.text
               \o (IF repl.group THEN SubSeq(s, r.gs, r.ge - 1) ELSE "")
               \o SubFrom(pat, repl, s, r.e)

ReSub(pat, repl, s) == SubFrom(pat, repl, s, 1)

(***************************************************************************)
(* ModDeobfuscator.apply_mappings_to_java: the text transformation         *)
(***************************************************************************)
Last(q) == q[Len(q)]

\* mapped.split('.')[-1] if '.' in mapped else mapped
MappedClassName(mapped) ==
  IF Contains(mapped, ".") THEN Last(SplitOn(mapped, ".")) ELSE mapped

Repl(text, group) == [text |-> text, group |-> group]

\* ApplyClassEntry with the \b in front of the key of the fourth pattern left out
ApplyClassEntryNoBoundary(content, obf, mapped) ==
  LET name == MappedClassName(mapped)
      c1 == ReSub(<<B, Lit("class"), Sp, Lit(obf), B>>, Repl("class " \o name, FALSE), content)
      c2 == ReSub(<<B, Lit("extends"), Sp, Lit(obf), B>>, Repl("extends " \o name, FALSE), c1)
      c3 == ReSub(<<B, Lit("implements"), Sp, Lit(obf), B>>, Repl("implements " \o name, FALSE), c2)
      c4 == ReSub(<<Lit(obf), Sp, Wg>>, Repl(name \o " ", TRUE), c3)
      c5 == ReSub(<<B, Lit("new"), Sp, Lit(obf), So, Lit("(")>>, Repl("new " \o name \o "(", FALSE), c4)
  IN c5

\* one iteration of the loop over mappings['classes']: the five re.sub calls
ApplyClassEntry(content, obf, mapped) ==
  LET name == MappedClassName(mapped)
      c1 == ReSub(<<B, Lit("class"), Sp, Lit(obf), B>>, Repl("class " \o name, FALSE), content)
      c2 == ReSub(<<B, Lit("extends"), Sp, Lit(obf), B>>, Repl("extends " \o name, FALSE), c1)
      c3 == ReSub(<<B, Lit("implements"), Sp, Lit(obf), B>>, Repl("implements " \o name, FALSE), c2)
      c4 == ReSub(<<B, Lit(obf), Sp, Wg>>, Repl(name \o " ", TRUE), c3)
      c5 == ReSub(<<B, Lit("new"), Sp, Lit(obf), So, Lit("(")>>, Repl("new " \o name \o "(", FALSE), c4)
  IN c5

\* for obf, mapped in self.mappings.mappings['classes'].items(): a None
\* value makes "'.' in mapped" raise TypeError, a None key makes re.escape
\* raise TypeError
RECURSIVE ApplyClasses(_, _, _)
ApplyClasses(content, classes, i) ==
  IF i > Len(classes) THEN [raised |-> "", content |-> content]
  ELSE IF classes[i].k = None \/ classes[i].v = None
       THEN [raised |-> "TypeError", content |-> content]
       ELSE ApplyClasses(ApplyClassEntry(content, classes[i].k, classes[i].v), classes, i + 1)

\* one iteration of the loop over mappings['methods'], for a key and a value
\* that both split in two at their first '.'
ApplyMethodEntry(content, obf_key, mapped_key) ==
  LET obf_method == SplitOnce(obf_key, ".")[2]
      mapped_method == SplitOnce(mapped_key, ".")[2]
  IN IF Contains(content, obf_method)
     THEN ReSub(<<B, Lit(obf_method), So, Lit("(")>>, Repl(mapped_method \o "(", FALSE), content)
     ELSE content

\* for obf_key, mapped_key in self.mappings.mappings['methods'].items():
\* unpacking split('.', 1) into two names raises ValueError when the key or
\* the value has no '.'
RECURSIVE ApplyMethods(_, _, _)
ApplyMethods(content, methods, i) ==
  IF i > Len(methods) THEN [raised |-> "", content |-> content]
  ELSE IF methods[i].k = None \/ methods[i].v = None
       THEN [raised |-> "AttributeError", content |-> content]
  ELSE IF Len(SplitOnce(methods[i].k, ".")) # 2 \/ Len(SplitOnce(methods[i].v, ".")) # 2
       THEN [raised |-> "ValueError", content |-> content]
       ELSE ApplyMethods(ApplyMethodEntry(content, methods[i].k, methods[i].v), methods, i + 1)

\* the loop over the methods, which an exception of the loop over the
\* classes (its result c) never reaches
ThenMethods(c, methods) ==
  IF c.raised # "" THEN c ELSE ApplyMethods(c.content, methods, 1)

\* RewriteText with the entries of mappings['fields'] rewritten like those
\* of mappings['classes']
RewriteTextWithFields(content, m) ==
  ThenMethods(ApplyClasses(content, m.classes \o m.fields, 1), m.methods)

\* the content apply_mappings_to_java computes from the text it read: the
\* loop over the classes, then the loop over the methods
RewriteText(content, m) == ThenMethods(ApplyClasses(content, m.classes, 1), m.methods)

(***************************************************************************)
(* MCPMappingLoader                                                        *)
(***************************************************************************)
\* __init__: the three forward and the three reverse dicts, all empty
EmptyMappings == [classes |-> <<>>, methods |-> <<>>, fields |-> <<>>]

\* 'for line in f': the lines of a file's text.  The piece after a final
\* newline is empty and every parser skips empty lines.
Lines(text) == SplitOn(text, "\n")

\* SrgLine taking the canonical owner and method of an MD line one column early
SrgLineShifted(st, raw) ==
  LET line == Strip(raw, SpaceChars)
      parts == SplitWs(line)
  IN IF line = "" \/ StartsWith(line, "#") THEN st
     ELSE IF Len(parts) < 3 THEN st
     ELSE IF StartsWith(line, "CL:")
          THEN [m |-> [st.m EXCEPT !.classes = DictSet(@, parts[2], parts[3])],
                r |-> [st.r EXCEPT !.classes = DictSet(@, parts[3], parts[2])]]
     ELSE IF StartsWith(line, "MD:")
          THEN IF Len(parts) >= 6
               THEN LET key == parts[2] \o "." \o parts[3]
                        value == parts[4] \o "." \o parts[5]
                    IN [m |-> [st.m EXCEPT !.methods = DictSet(@, key, value)],
                        r |-> [st.r EXCEPT !.methods = DictSet(@, value, key)]]
               ELSE st
     ELSE IF StartsWith(line, "FD:")
          THEN [m |-> [st.m EXCEPT !.fields = DictSet(@, parts[2], parts[3])],
                r |-> [st.r EXCEPT !.fields = DictSet(@, parts[3], parts[2])]]
     ELSE st

\* load_from_srg, the body of the loop for one line; st = [m, r] holds
\* mappings and reverse_mappings
SrgLine(st, raw) ==
  LET line == Strip(raw, SpaceChars)
      parts == SplitWs(line)
  IN IF line = "" \/ StartsWith(line, "#") THEN st
     ELSE IF Len(parts) < 3 THEN st
     ELSE IF StartsWith(line, "CL:")
          THEN [m |-> [st.m EXCEPT !.classes = DictSet(@, parts[2], parts[3])],
                r |-> [st.r EXCEPT !.classes = DictSet(@, parts[3], parts[2])]]
     ELSE IF StartsWith(line, "MD:")
          THEN IF Len(parts) >= 6
               THEN LET key == parts[2] \o "." \o parts[3]
                        value == parts[5] \o "." \o parts[6]
                    IN [m |-> [st.m EXCEPT !.methods = DictSet(@, key, value)],
                        r |-> [st.r EXCEPT !.methods = DictSet(@, value, key)]]
               ELSE st
     ELSE IF StartsWith(line, "FD:")
          THEN [m |-> [st.m EXCEPT !.fields = DictSet(@, parts[2], parts[3])],
                r |-> [st.r EXCEPT !.fields = DictSet(@, parts[3], parts[2])]]
     ELSE st

RECURSIVE SrgLoop(_, _, _)
SrgLoop(st, lines, i) ==
  IF i > Len(lines) THEN st ELSE SrgLoop(SrgLine(st, lines[i]), lines, i + 1)

\* load_from_srg(srg_file) on the text of the file
LoadFromSrg(st, text) == SrgLoop(st, Lines(text), 1)

\* ProguardLine with a header that sets current_class only when there is
\* none yet
ProguardLineFirstContext(st, raw) ==
  LET line == Strip(raw, SpaceChars)
      parts == SplitOn(line, " -> ")
      cls == DictGet(st.m.classes, st.cur, st.cur)
  IN IF line = "" \/ StartsWith(line, "#") THEN st
     ELSE IF Contains(line, " -> ") /\ EndsWith(line, ":")
          THEN IF Len(parts) = 2
               THEN LET original == Strip(parts[1], {"'"})
                        obfuscated == Strip(parts[2], {"'", " ", ":"})
                    IN [m |-> [st.m EXCEPT !.classes = DictSet(@, obfuscated, original)],
                        cur |-> IF st.cur = "" THEN obfuscated ELSE st.cur]
               ELSE st
     ELSE IF st.cur # "" /\ Contains(line, " -> ") /\ Contains(line, "(")
          THEN IF Len(parts) = 2 /\ Contains(parts[1], "(")
               THEN LET obfuscated == Strip(parts[2], SpaceChars)
                        original_method == SplitOn(parts[1], "(")[1]
                    IN [st EXCEPT !.m.methods =
                          DictSet(@, st.cur \o "." \o obfuscated, cls \o "." \o original_method)]
               ELSE st
     ELSE IF st.cur # "" /\ Contains(line, " -> ") /\ ~Contains(line, "(")
          THEN IF Len(parts) = 2
               THEN LET original_part == Last(SplitWs(parts[1]))
                        obfuscated == Strip(parts[2], SpaceChars)
                    IN [st EXCEPT !.m.fields =
                          DictSet(@, st.cur \o "/" \o obfuscated, cls \o "/" \o original_part)]
               ELSE st
     ELSE st

\* load_from_proguard, the body of the loop for one line; st = [m, cur],
\* cur is current_class, "" standing for None as well (the code tests
\* current_class for truth only, and both None and '' are false)
ProguardLine(st, raw) ==
  LET line == Strip(raw, SpaceChars)
      parts == SplitOn(line, " -> ")
      cls == DictGet(st.m.classes, st.cur, st.cur)
  IN IF line = "" \/ StartsWith(line, "#") THEN st
     ELSE IF Contains(line, " -> ") /\ EndsWith(line, ":")
          THEN IF Len(parts) = 2
               THEN LET original == Strip(parts[1], {"'"})
                        obfuscated == Strip(parts[2], {"'", " ", ":"})
                    IN [m |-> [st.m EXCEPT !.classes = DictSet(@, obfuscated, original)],
                        cur |-> obfuscated]
               ELSE st
     ELSE IF st.cur # "" /\ Contains(line, " -> ") /\ Contains(line, "(")
          THEN IF Len(parts) = 2 /\ Contains(parts[1], "(")
               THEN LET obfuscated == Strip(parts[2], SpaceChars)
                        original_method == SplitOn(parts[1], "(")[1]
                    IN [st EXCEPT !.m.methods =
                          DictSet(@, st.cur \o "." \o obfuscated, cls \o "." \o original_method)]
               ELSE st
     ELSE IF st.cur # "" /\ Contains(line, " -> ") /\ ~Contains(line, "(")
          THEN IF Len(parts) = 2
               THEN LET original_part == Last(SplitWs(parts[1]))
                        obfuscated == Strip(parts[2], SpaceChars)
                    IN [st EXCEPT !.m.fields =
                          DictSet(@, st.cur \o "/" \o obfuscated, cls \o "/" \o original_part)]
               ELSE st
     ELSE st

RECURSIVE ProguardLoop(_, _, _)
ProguardLoop(st, lines, i) ==
  IF i > Len(lines) THEN st ELSE ProguardLoop(ProguardLine(st, lines[i]), lines, i + 1)

\* load_from_proguard(mapping_file) on the text of the file: current_class
\* starts as None; reverse_mappings is not touched
LoadFromProguard(st, text) ==
  [m |-> ProguardLoop([m |-> st.m, cur |-> ""], Lines(text), 1).m, r |-> st.r]

\* csv.reader on text without quote characters: one row per line, split at
\* every comma; an empty line is the empty row
CsvRow(line) == IF line = "" THEN <<>> ELSE SplitOn(line, ",")

\* does the row dict built by csv.DictReader have the key name
RowHas(fieldnames, name) == \E i \in 1..Len(fieldnames) : fieldnames[i] = name

\* row[name] of the dict DictReader builds: dict(zip(fieldnames, row)), then
\* None (restval) for every field name past the end of a short row; the last
\* column of a name decides
RowGet(fieldnames, row, name) ==
  LET i == CHOOSE j \in 1..Len(fieldnames) :
             /\ fieldnames[j] = name
             /\ \A h \in 1..Len(fieldnames) : fieldnames[h] = name => h <= j
  IN IF i <= Len(row) THEN row[i] ELSE None

\* load_from_csv, the body of the loop for one row of the DictReader, which
\* skips empty rows
CsvLine(st, fieldnames, line) ==
  LET row == CsvRow(line)
  IN IF row = <<>> THEN st
     ELSE IF RowHas(fieldnames, "obfuscated") /\ RowHas(fieldnames, "mapped")
          THEN LET obf == RowGet(fieldnames, row, "obfuscated")
                   mapped == RowGet(fieldnames, row, "mapped")
                   mapping_type == IF RowHas(fieldnames, "type")
                                   THEN RowGet(fieldnames, row, "type") ELSE "class"
               IN IF mapping_type = "class"
                  THEN [st EXCEPT !.m.classes = DictSet(@, obf, mapped)]
                  ELSE IF mapping_type = "method"
                  THEN [st EXCEPT !.m.methods = DictSet(@, obf, mapped)]
                  ELSE IF mapping_type = "field"
                  THEN [st EXCEPT !.m.fields = DictSet(@, obf, mapped)]
                  ELSE st
          ELSE st

RECURSIVE CsvLoop(_, _, _, _)
CsvLoop(st, fieldnames, lines, i) ==
  IF i > Len(lines) THEN st
  ELSE CsvLoop(CsvLine(st, fieldnames, lines[i]), fieldnames, lines, i + 1)

\* the lines csv.reader sees: a final newline ends the last line
CsvLines(text) ==
  IF text = "" THEN <<>>
  ELSE IF EndsWith(text, "\n") THEN Lines(SubSeq(text, 1, Len(text) - 1))
  ELSE Lines(text)

\* load_from_csv(csv_file) on the text of the file: the first row is the
\* header (fieldnames), every later row is a data row
LoadFromCsv(st, text) ==
  LET lines == CsvLines(text)
  IN IF lines = <<>> THEN st
     ELSE CsvLoop(st, CsvRow(lines[1]), lines, 2)

(***************************************************************************)
(* Bounds and input sets                                                   *)
(***************************************************************************)
\* number of source files of a decompiled tree
MaxFiles == 2

\* number of calls made on one ModDeobfuscator
MaxCalls == 2

\* Path(jar_path).stem
JarStem == "mod"

DecompiledDefault == JarStem \o "_decompiled"

DeobfuscatedDefault == JarStem \o "_deobfuscated"

\* the values of an output_dir argument: None and the --output directory
OutputDirs == {None, "out"}

DirNames == {DecompiledDefault, DeobfuscatedDefault, "out"}

RelPathList == <<"A.java", "p/B.java", "p/q/C.java", "D.java">>

RelPaths == {RelPathList[i] : i \in 1..MaxFiles}

\* a path of the file system holds no file, a file with a text, or a file
\* the process may neither read nor write
NoFile == [kind |-> "none", text |-> ""]

NoAccess == [kind |-> "noaccess", text |-> ""]

File(text) == [kind |-> "file", text |-> text]

EmptyDir == [p \in RelPaths |-> NoFile]

\* the mapping files on disk, by name
MapFiles ==
  [name \in {"m.srg", "m.csv", "mapping.txt", "m.tsrg", "bad.dat", "pg.dat",
             "q.txt", "methods.csv"} |->
     CASE name = "m.srg" ->
            "CL: a com/example/Foo\nMD: a m ()V com/example/Foo run ()V\n"
       [] name = "m.csv" ->
            "obfuscated,mapped,type\na,Foo,class\nb,Bar,class\n"
       [] name = "mapping.txt" ->
            "X -> a:\n    run() -> m\nY -> b:\n    go() -> m\n"
       [] name = "m.tsrg" ->
            "# classes\nCL: b a\nCL: a b\n"
       [] name = "bad.dat" -> "a b\n"
       [] name = "pg.dat" -> "X -> a:\n    void run() -> m\n"
       [] name = "q.txt" -> "com.example.Foo -> a:\n    run() -> m\n"
       [] name = "methods.csv" -> "obfuscated,mapped,type\nm,run,method\n"]

MissingFile == "none.srg"

\* the text a decompiler writes at each path of RelPathList
SourceTexts == <<"x();", "a m();", "a m();", "x();">>

\* the trees a decompiler leaves: every path is absent, unreadable, or a
\* file with its text
Trees ==
  {t \in [RelPaths -> {NoFile, NoAccess} \cup {File(SourceTexts[i]) : i \in 1..MaxFiles}] :
     \A i \in 1..MaxFiles :
       t[RelPathList[i]] \in {NoFile, NoAccess, File(SourceTexts[i])}}

(***************************************************************************)
(* ModDeobfuscator                                                         *)
(***************************************************************************)
UpperCase == <<"A","B","C","D","E","F","G","H","I","J","K","L","M","N","O","P","Q","R",
               "S","T","U","V","W","X","Y","Z">>

LowerCase == <<"a","b","c","d","e","f","g","h","i","j","k","l","m","n","o","p","q","r",
               "s","t","u","v","w","x","y","z">>

LowerCh(c) ==
  IF \E i \in 1..26 : UpperCase[i] = c
  THEN LowerCase[CHOOSE i \in 1..26 : UpperCase[i] = c]
  ELSE c

\* s.lower()
RECURSIVE Lower(_)
Lower(s) == IF s = "" THEN "" ELSE LowerCh(Ch(s, 1)) \o Lower(SubSeq(s, 2, Len(s)))

\* load_mappings(mappings_file) on st = [m, r] and the files on disk: False for a file that does
\* not exist, otherwise the loader the file name selects; no loader raises
\* on a readable text file, so the except branch of the fallback is dead
LoadMappings(st, files, mappings_file) ==
  IF mappings_file \notin DOMAIN files
  THEN [m |-> st.m, r |-> st.r, ok |-> FALSE]
  ELSE LET text == files[mappings_file]
           l == IF EndsWith(mappings_file, ".srg") THEN LoadFromSrg(st, text)
                ELSE IF EndsWith(mappings_file, ".csv") THEN LoadFromCsv(st, text)
                ELSE IF EndsWith(mappings_file, ".txt")
                        \/ Contains(Lower(mappings_file), "mapping")
                     THEN LoadFromProguard(st, text)
                ELSE LoadFromSrg(st, text)
       IN [m |-> l.m, r |-> l.r, ok |-> TRUE]

\* WriteText returning True whenever it wrote the file
WriteTextAlwaysChanged(f, src, r, output_file) ==
  IF src.kind = "none"
  THEN [fs |-> f, raised |-> "FileNotFoundError", changed |-> FALSE]
  ELSE IF src.kind = "noaccess"
  THEN [fs |-> f, raised |-> "PermissionError", changed |-> FALSE]
  ELSE IF r.raised # ""
  THEN [fs |-> f, raised |-> r.raised, changed |-> FALSE]
  ELSE IF f[output_file[1]][output_file[2]].kind = "noaccess"
  THEN [fs |-> f, raised |-> "PermissionError", changed |-> FALSE]
  ELSE [fs |-> [f EXCEPT ![output_file[1]][output_file[2]] = File(r.content)],
        raised |-> "", changed |-> TRUE]

\* the statements of apply_mappings_to_java around the two loops, for the
\* file src that is read and the result r of rewriting its text: read_text
\* raises for a missing or unreadable file, the rewriting can raise,
\* write_text raises for an unwritable file; otherwise the content is
\* written and the result is content != original_content.
WriteText(f, src, r, output_file) ==
  IF src.kind = "none"
  THEN [fs |-> f, raised |-> "FileNotFoundError", changed |-> FALSE]
  ELSE IF src.kind = "noaccess"
  THEN [fs |-> f, raised |-> "PermissionError", changed |-> FALSE]
  ELSE IF r.raised # ""
  THEN [fs |-> f, raised |-> r.raised, changed |-> FALSE]
  ELSE IF f[output_file[1]][output_file[2]].kind = "noaccess"
  THEN [fs |-> f, raised |-> "PermissionError", changed |-> FALSE]
  ELSE [fs |-> [f EXCEPT ![output_file[1]][output_file[2]] = File(r.content)],
        raised |-> "", changed |-> r.content # src.text]

\* apply_mappings_to_java(java_file, output_file) on file system f with the
\* table m; a path is <<directory, relative path>>
ApplyMappingsToJava(f, m, java_file, output_file) ==
  WriteText(f, f[java_file[1]][java_file[2]],
            RewriteText(f[java_file[1]][java_file[2]].text, m), output_file)

\* Counted counting every file that was written
CountedEvery(st, a) ==
  [fs |-> a.fs, raised |-> a.raised,
   count |-> st.count + (IF a.raised = "" THEN 1 ELSE 0)]

\* deobfuscated_count after a call of apply_mappings_to_java with result a
Counted(st, a) ==
  [fs |-> a.fs, raised |-> a.raised,
   count |-> st.count + (IF a.changed THEN 1 ELSE 0)]

\* the loop of deobfuscate over java_files on st = [fs, raised, count]: the
\* first exception leaves the loop (and deobfuscate), count is
\* deobfuscated_count, the number of changed files
RECURSIVE DeobfuscateLoop(_, _, _, _, _, _)
DeobfuscateLoop(st, m, from, to, java_files, i) ==
  IF i > Len(java_files) \/ st.raised # "" THEN st
  ELSE DeobfuscateLoop(
         Counted(st, ApplyMappingsToJava(st.fs, m, <<from, java_files[i]>>, <<to, java_files[i]>>)),
         m, from, to, java_files, i + 1)

\* list(dir.rglob("*.java")): the files of the directory, in the order the
\* file system lists them, which is any order
Listings(f, dir) ==
  LET S == {p \in RelPaths : f[dir][p].kind # "none"}
  IN {q \in [1..Cardinality(S) -> S] : \A i, j \in 1..Cardinality(S) : q[i] = q[j] => i = j}

Ret(op, value, raised, count) ==
  [op |-> op, value |-> value, raised |-> raised, count |-> count]

\* mc_version: str = "1.8.9"
DefaultVersion == "1.8.9"

\* a ModDeobfuscator built by ModDeobfuscator(jar_path), not by main
NoCommandLine ==
  /\ mc_version = DefaultVersion
  /\ argv = <<>>
  /\ detected = None

\* __init__: no mapping loaded, no directory set
Init ==
  /\ mappings = EmptyMappings
  /\ reverse_mappings = EmptyMappings
  /\ decompiled_dir = None
  /\ deobfuscated_dir = None
  /\ fs = [d \in DirNames |-> EmptyDir]
  /\ mapping_files = MapFiles
  /\ calls = 0
  /\ ret = Ret("init", None, "", 0)
  /\ NoCommandLine

\* decompile(decompiler, decompiler_path, output_dir): sets decompiled_dir;
\* the external decompiler fills the directory with a source tree or, when
\* it is missing or fails, leaves it as it is
Decompile(output_dir) ==
  LET dir == IF output_dir = None THEN DecompiledDefault ELSE output_dir
  IN /\ calls < MaxCalls
     /\ calls' = calls + 1
     /\ decompiled_dir' = dir
     /\ \/ fs' = fs
        \/ \E t \in Trees : fs' = [fs EXCEPT ![dir] = t]
     /\ ret' = Ret("decompile", dir, "", 0)
     /\ UNCHANGED <<mappings, reverse_mappings, deobfuscated_dir, mapping_files>>
     /\ UNCHANGED <<mc_version, argv, detected>>

\* deobfuscate(mappings_file, output_dir)
Deobfuscate(mappings_file, output_dir) ==
  /\ calls < MaxCalls
  /\ calls' = calls + 1
  /\ UNCHANGED <<mapping_files, mc_version, argv, detected>>
  /\ \E l \in {LoadMappings([m |-> mappings, r |-> reverse_mappings], mapping_files, mappings_file)},
        dir \in {IF output_dir = None THEN DeobfuscatedDefault ELSE output_dir} :
       IF decompiled_dir = None \/ ~l.ok
       THEN /\ ret' = Ret("deobfuscate", None, "", 0)
            /\ UNCHANGED <<mappings, reverse_mappings, decompiled_dir, deobfuscated_dir, fs>>
       ELSE \E java_files \in Listings(fs, decompiled_dir) :
              \E d \in {DeobfuscateLoop([fs |-> fs, raised |-> "", count |-> 0], l.m,
                                        decompiled_dir, dir, java_files, 1)} :
                /\ mappings' = l.m
                /\ reverse_mappings' = l.r
                /\ deobfuscated_dir' = dir
                /\ fs' = d.fs
                /\ ret' = Ret("deobfuscate", IF d.raised = "" THEN dir ELSE None,
                              d.raised, d.count)
                /\ UNCHANGED decompiled_dir

\* Findings without the test of deobfuscated_dir
FindingsAlways ==
  Ret("analyze_deobfuscated", "findings", "", 0)

\* what analyze_deobfuscated() returns
Findings ==
  IF deobfuscated_dir = None
  THEN Ret("analyze_deobfuscated", None, "", 0)
  ELSE Ret("analyze_deobfuscated", "findings", "", 0)

\* analyze_deobfuscated(): None when nothing was deobfuscated, otherwise the
\* findings dict; unreadable files are skipped
AnalyzeDeobfuscated ==
  /\ calls < MaxCalls
  /\ calls' = calls + 1
  /\ ret' = Findings
  /\ UNCHANGED <<mappings, reverse_mappings, decompiled_dir, deobfuscated_dir, fs, mapping_files>>
  /\ UNCHANGED <<mc_version, argv, detected>>

Next ==
  \/ \E output_dir \in OutputDirs : Decompile(output_dir)
  \/ \E mappings_file \in DOMAIN mapping_files \cup {MissingFile}, output_dir \in OutputDirs :
       Deobfuscate(mappings_file, output_dir)
  \/ AnalyzeDeobfuscated

Spec == Init /\ [][Next]_vars


(***************************************************************************)
(* The rewriter on its own: a table and one source file, rewritten by a    *)
(* call of apply_mappings_to_java, and its output rewritten again          *)
(***************************************************************************)
\* number of fragments of a generated source text
MaxFrags == 3

\* number of entries of a generated table
MaxEntries == 2

Frags == {"a", "m", "class", " ", "("}

RECURSIVE TextsUpTo(_)
TextsUpTo(n) ==
  IF n = 0 THEN {""}
  ELSE LET T == TextsUpTo(n - 1) IN T \cup {t \o f : t \in T, f \in Frags}

SampleTexts ==
  { "abc a",
    "class a extends b { a x = new a(); }",
    "a a a",
    "bca x; a y; am(); m();",
    "s = \"a b\";",
    "// a b\nb x;",
    "/* class a */ m();",
    "x = new a[2];",
    "x = new m();",
    "m(); x.m ();",
    "class\ta\n{ a\n\tm (b); }" }

RewriteTexts == TextsUpTo(MaxFrags) \cup SampleTexts

\* entries of mappings['classes']: canonical names, and names that are
\* themselves keys or look like one
ClassEntries ==
  { [k |-> "a", v |-> "Foo"], [k |-> "a", v |-> "b"], [k |-> "a", v |-> "c"],
    [k |-> "b", v |-> "Bar"], [k |-> "b", v |-> "c"] }

\* entries of mappings['methods']: the method m of two classes
MethodEntries == [k : {"a.m", "b.m"}, v : {"Foo.run", "Bar.go"}]

\* the dicts of at most n entries from E, no key twice
DictsUpTo(n, E) ==
  UNION {{d \in [1..len -> E] :
            \A i, j \in 1..len : d[i].k = d[j].k => i = j} : len \in 0..n}

\* mappings['fields']: empty, or the field a of the tabular grammar, which
\* keys a field by its bare name
FieldTables == {<<>>, <<[k |-> "a", v |-> "g"]>>}

RewriteTables ==
  {[classes |-> c, methods |-> m, fields |-> f] :
     c \in DictsUpTo(MaxEntries, ClassEntries),
     m \in DictsUpTo(MaxEntries, MethodEntries),
     f \in FieldTables}

SourceFile == <<DecompiledDefault, RelPathList[1]>>

FirstOutput == <<DeobfuscatedDefault, RelPathList[1]>>

SecondOutput == <<"out", RelPathList[1]>>

InitRewrite ==
  /\ \E m \in RewriteTables :
       /\ Len(m.classes) + Len(m.methods) + Len(m.fields) <= MaxEntries
       /\ mappings = m
  /\ reverse_mappings = EmptyMappings
  /\ decompiled_dir = None
  /\ deobfuscated_dir = None
  /\ \E t \in RewriteTexts :
       fs = [d \in DirNames |->
               IF d = SourceFile[1] THEN [EmptyDir EXCEPT ![SourceFile[2]] = File(t)]
               ELSE EmptyDir]
  /\ mapping_files = MapFiles
  /\ calls = 0
  /\ ret = Ret("init", None, "", 0)
  /\ NoCommandLine

\* a call apply_mappings_to_java(java_file, output_file)
ApplyCall(java_file, output_file) ==
  /\ calls < MaxCalls
  /\ calls' = calls + 1
  /\ \E a \in {ApplyMappingsToJava(fs, mappings, java_file, output_file)} :
       /\ fs' = a.fs
       /\ ret' = Ret("apply_mappings_to_java", IF a.changed THEN "True" ELSE "False", a.raised, 0)
  /\ UNCHANGED <<mappings, reverse_mappings, decompiled_dir, deobfuscated_dir, mapping_files>>
  /\ UNCHANGED <<mc_version, argv, detected>>

\* the source file is rewritten to the first output
RewriteSource ==
  /\ calls = 0
  /\ ApplyCall(SourceFile, FirstOutput)

\* the first output is rewritten to the second output
RewriteOutput ==
  /\ fs[FirstOutput[1]][FirstOutput[2]].kind = "file"
  /\ ApplyCall(FirstOutput, SecondOutput)

NextRewrite == RewriteSource \/ RewriteOutput

SpecRewrite == InitRewrite /\ [][NextRewrite]_vars


(***************************************************************************)
(* Properties of the rewriter (SpecRewrite)                                *)
(***************************************************************************)
SourceRec == fs[SourceFile[1]][SourceFile[2]]

FirstRec == fs[FirstOutput[1]][FirstOutput[2]]

SecondRec == fs[SecondOutput[1]][SecondOutput[2]]

\* the source file has been rewritten
Rewritten == FirstRec.kind = "file"

\* the identifier tokens of a text: the maximal runs of word characters,
\* as [b, e] positions and as strings
RECURSIVE SpansFrom(_, _)
SpansFrom(s, pos) ==
  LET starts == {i \in pos..Len(s) : IsWord(Ch(s, i))}
  IN IF starts = {} THEN <<>>
     ELSE LET i == Min(starts)
              n == Run(s, i, WordChars)
          IN <<[b |-> i, e |-> i + n - 1]>> \o SpansFrom(s, i + n)

Spans(s) == SpansFrom(s, 1)

Tokens(s) == LET sp == Spans(s) IN [i \in 1..Len(sp) |-> SubSeq(s, sp[i].b, sp[i].e)]

Range(q) == {q[i] : i \in 1..Len(q)}

Count(t, q) == Cardinality({i \in 1..Len(q) : q[i] = t})

\* the method name of a Method key or value: what follows its first '.'
BareMethod(key) == Last(SplitOnce(key, "."))

\* C1: rewriting the output of a rewrite again, with the same table, yields
\* that output again
Idempotent == SecondRec.kind = "file" => SecondRec.text = FirstRec.text

\* the names a table gives directly for the token t
DirectImages(m, t) ==
  {MappedClassName(m.classes[i].v) : i \in {j \in 1..Len(m.classes) : m.classes[j].k = t}}
  \cup {BareMethod(m.methods[i].v) :
          i \in {j \in 1..Len(m.methods) : BareMethod(m.methods[j].k) = t}}

\* C2: within one rewrite every identifier token is substituted at most
\* once: each token of the output is the token of the input at its place or
\* the canonical name the table gives for that token, never the name given
\* for an emitted canonical name
SubstitutedOnce ==
  Rewritten =>
    LET tin == Tokens(SourceRec.text)
        tout == Tokens(FirstRec.text)
    IN /\ Len(tout) = Len(tin)
       /\ \A i \in 1..Len(tin) : tout[i] = tin[i] \/ tout[i] \in DirectImages(mappings, tin[i])

\* the string literals, character literals and comments of a text, in order,
\* found by a scan from left to right (the texts hold no backslash)
RECURSIVE RegionsFrom(_, _)
RegionsFrom(s, pos) ==
  LET opens == {i \in pos..Len(s) :
                  Ch(s, i) \in {"\"", "'"} \/ SubSeq(s, i, Min({i + 1, Len(s)})) \in {"//", "/*"}}
  IN IF opens = {} THEN <<>>
     ELSE LET i == Min(opens)
              two == SubSeq(s, i, Min({i + 1, Len(s)}))
              nl == FindFrom(s, "\n", i + 1)
              lineEnd == IF nl = 0 THEN Len(s) ELSE nl - 1
              q == FindFrom(s, Ch(s, i), i + 1)
              close == FindFrom(s, "*/", i + 2)
              e == IF Ch(s, i) \in {"\"", "'"}
                   THEN (IF q = 0 \/ q > lineEnd THEN lineEnd ELSE q)
                   ELSE IF two = "//" THEN lineEnd
                   ELSE (IF close = 0 THEN Len(s) ELSE close + 1)
          IN <<SubSeq(s, i, e)>> \o RegionsFrom(s, e + 1)

Regions(s) == RegionsFrom(s, 1)

\* C4: the string literals, character literals and comments of the output
\* are, one by one, those of the input
LiteralsAndCommentsKept == Rewritten => Regions(FirstRec.text) = Regions(SourceRec.text)

\* C6: with a table whose three mappings are empty every rewrite returns the
\* text unchanged and reports changed = False
EmptyTableRoundTrip ==
  (mappings = EmptyMappings /\ ret.op = "apply_mappings_to_java") =>
     /\ ret.raised = ""
     /\ ret.value = "False"
     /\ Rewritten
     /\ FirstRec.text = SourceRec.text
     /\ SecondRec.kind = "file" => SecondRec.text = SourceRec.text

EmptyTableRewritten ==
  /\ mappings = EmptyMappings
  /\ Rewritten
  /\ SourceRec.text = "class a extends b { a x = new a(); }"

\* the keys a token is compared with: the Class keys and the method names of
\* the Method keys
TableKeys(m) ==
  {m.classes[i].k : i \in 1..Len(m.classes)}
  \cup {BareMethod(m.methods[i].k) : i \in 1..Len(m.methods)}

\* the identifier tokens of the canonical values of a table
ValueTokens(m) ==
  UNION ({Range(Tokens(m.classes[i].v)) : i \in 1..Len(m.classes)}
         \cup {Range(Tokens(m.methods[i].v)) : i \in 1..Len(m.methods)})

\* the tokens of a text that are longer than a key they contain, and are
\* neither a key nor part of a canonical value themselves
LongerTokens(text, m) ==
  {t \in Range(Tokens(text)) :
     /\ t \notin TableKeys(m)
     /\ t \notin ValueTokens(m)
     /\ \E k \in TableKeys(m) : k # "" /\ Len(k) < Len(t) /\ Contains(t, k)}

\* C7: an identifier token that has a Class or Method key as a proper
\* substring is not altered: it occurs in the output as often as in the input
NoPartialWordMatch ==
  Rewritten =>
    \A t \in LongerTokens(SourceRec.text, mappings) :
       Count(t, Tokens(FirstRec.text)) = Count(t, Tokens(SourceRec.text))

PartialWordBesideMatch ==
  /\ Rewritten
  /\ SourceRec.text = "bca x; a y; am(); m();"
  /\ FirstRec.text = "bca x; Foo y; am(); run();"
  /\ {"bca", "am"} \subseteq LongerTokens(SourceRec.text, mappings)

\* C8: with the single Class mapping a -> Foo the text "abc a" is rewritten
\* to "abc Foo" and the call reports a change
LastTokenReplaced ==
  ( /\ mappings.classes = <<[k |-> "a", v |-> "Foo"]>>
    /\ mappings.methods = <<>>
    /\ SourceRec.text = "abc a"
    /\ calls = 1 ) =>
     (Rewritten /\ FirstRec.text = "abc Foo" /\ ret.value = "True")

TypeKeywords == {"class", "extends", "implements", "new"}

\* the characters from..to of s are whitespace, and there is at least one
Blank(s, from, to) == from <= to /\ \A i \in from..to : IsSpace(Ch(s, i))

\* C9: every whole-token occurrence of a Class key that directly follows
\* class, extends, implements or new, or is directly followed by whitespace
\* and an identifier, is replaced by the canonical name; and the example of
\* the two classes Foo and Bar
ClassPositionCoverage ==
  /\ Rewritten =>
       LET text == SourceRec.text
           sp == Spans(text)
           tin == Tokens(text)
           tout == Tokens(FirstRec.text)
       IN \A i \in 1..Len(tin) :
            ( /\ DictHas(mappings.classes, tin[i])
              /\ \/ i > 1 /\ tin[i - 1] \in TypeKeywords
                          /\ Blank(text, sp[i - 1].e + 1, sp[i].b - 1)
                 \/ i < Len(tin) /\ Blank(text, sp[i].e + 1, sp[i + 1].b - 1) )
            => (i <= Len(tout) /\ tout[i] = DictGet(mappings.classes, tin[i], ""))
  /\ ( /\ Rewritten
       /\ mappings.classes = <<[k |-> "a", v |-> "Foo"], [k |-> "b", v |-> "Bar"]>>
       /\ mappings.methods = <<>>
       /\ SourceRec.text = "class a extends b { a x = new a(); }" )
     => FirstRec.text = "class Foo extends Bar { Foo x = new Foo(); }"


\* C20: an identifier token that directly follows class, extends, implements
\* or new is not rewritten through the Method mapping, even when a '('
\* follows it and it is the bare obfuscated name of a Method entry: in the
\* output it is what the Class mapping alone makes of it
TypePositionKept ==
  Rewritten =>
    LET text == SourceRec.text
        sp == Spans(text)
        tin == Tokens(text)
        byClasses == Tokens(ApplyClasses(text, mappings.classes, 1).content)
        tout == Tokens(FirstRec.text)
    IN \A i \in 2..Len(tin) :
         ( /\ tin[i - 1] \in TypeKeywords
           /\ Blank(text, sp[i - 1].e + 1, sp[i].b - 1)
           /\ \E j \in 1..Len(mappings.methods) : BareMethod(mappings.methods[j].k) = tin[i]
           /\ Ch(text, sp[i].e + 1 + Run(text, sp[i].e + 1, SpaceChars)) = "(" )
         => (i <= Len(tout) /\ i <= Len(byClasses) /\ tout[i] = byClasses[i])

\* C25: the result of apply_mappings_to_java does not depend on the Field
\* mapping: exception, text written and changed flag are those of the same
\* table with the Field mapping emptied, so they are the same for any two
\* tables that differ in their Field mapping only
FieldMappingIgnored ==
  (calls = 1 /\ ret.op = "apply_mappings_to_java") =>
    LET r == RewriteText(SourceRec.text, [mappings EXCEPT !.fields = <<>>])
    IN /\ ret.raised = r.raised
       /\ r.raised = "" =>
            /\ FirstRec = File(r.content)
            /\ ret.value = IF r.content # SourceRec.text THEN "True" ELSE "False"

\* a text whose tokens are a key of the Field mapping was rewritten with no
\* other entry in the table, and was written as it is
FieldKeyLeft ==
  /\ calls = 1
  /\ mappings = [classes |-> <<>>, methods |-> <<>>, fields |-> <<[k |-> "a", v |-> "g"]>>]
  /\ SourceRec.text = "a a a"
  /\ FirstRec = File("a a a")
  /\ ret.value = "False"

\* the dicts that hold the entries of d in another order of insertion
Reordered(d) ==
  {[i \in 1..Len(d) |-> d[p[i]]] :
     p \in {q \in [1..Len(d) -> 1..Len(d)] : \A i, j \in 1..Len(d) : q[i] = q[j] => i = j}}

\* C26: the text apply_mappings_to_java writes depends on the associations
\* of the table only: a table with the same Class and Method entries
\* inserted in any other order gives the same text
OrderIndependent ==
  (calls = 1 /\ ret.op = "apply_mappings_to_java" /\ ret.raised = "") =>
    \A c \in Reordered(mappings.classes), m \in Reordered(mappings.methods) :
      RewriteText(SourceRec.text, [mappings EXCEPT !.classes = c, !.methods = m])
        = [raised |-> "", content |-> FirstRec.text]

\* the pieces of s outside its identifier tokens: what stands in front of the
\* first token, between two tokens, and behind the last
Gaps(s) ==
  LET sp == Spans(s)
  IN [i \in 1..(Len(sp) + 1) |->
        SubSeq(s, IF i = 1 THEN 1 ELSE sp[i - 1].e + 1,
                  IF i = Len(sp) + 1 THEN Len(s) ELSE sp[i].b - 1)]

\* C27: a rewrite changes the characters of identifier tokens only: what
\* stands outside the tokens, whitespace included, is in the output as it
\* is in the input and in the same order
OnlyTokensChanged ==
  Rewritten => Gaps(FirstRec.text) = Gaps(SourceRec.text)

(***************************************************************************)
(* The loader on its own: one mapping file on disk, read by calls of the   *)
(* three load_from_* methods of one MCPMappingLoader                       *)
(***************************************************************************)
\* number of lines of a generated mapping file
MaxLines == 2

LineSamples ==
  { "CL: a com/example/Foo",
    "MD: a m ()V com/example/Foo run ()V",
    "CL: a Bar",
    "FD: a/f Foo/g",
    "CL: b",
    "# CL: c d",
    "",
    "  CL:\tb   Bar  ",
    "X -> a:",
    "    void run() -> m",
    "obfuscated,mapped,type",
    "a,Foo,class",
    "#a,Foo,class",
    "a,Foo" }

\* the files of at most n lines, every line ended by a newline
RECURSIVE FilesUpTo(_)
FilesUpTo(n) ==
  IF n = 0 THEN {""}
  ELSE LET F == FilesUpTo(n - 1) IN F \cup {t \o l \o "\n" : t \in F, l \in LineSamples}

\* longer files: a hierarchical file of two classes with a member line in
\* front of the first header
ContextExample ==
  "    run() -> m\nX -> a:\n    run() -> m\nY -> b:\n    int f -> g\n    go() -> m\n"

SampleFiles == {ContextExample}

LoadedFile == "mappings"

InitLoad ==
  /\ mappings = EmptyMappings
  /\ reverse_mappings = EmptyMappings
  /\ decompiled_dir = None
  /\ deobfuscated_dir = None
  /\ fs = [d \in DirNames |-> EmptyDir]
  /\ \E t \in FilesUpTo(MaxLines) \cup SampleFiles : mapping_files = [n \in {LoadedFile} |-> t]
  /\ calls = 0
  /\ ret = Ret("init", None, "", 0)
  /\ NoCommandLine

\* a call of one of the load_from_* methods on the file
LoadCall(op, l) ==
  /\ calls < MaxCalls
  /\ calls' = calls + 1
  /\ mappings' = l.m
  /\ reverse_mappings' = l.r
  /\ ret' = Ret(op, None, "", 0)
  /\ UNCHANGED <<decompiled_dir, deobfuscated_dir, fs, mapping_files>>
  /\ UNCHANGED <<mc_version, argv, detected>>

Loader == [m |-> mappings, r |-> reverse_mappings]

LoadFromSrgCall == LoadCall("load_from_srg", LoadFromSrg(Loader, mapping_files[LoadedFile]))

LoadFromCsvCall == LoadCall("load_from_csv", LoadFromCsv(Loader, mapping_files[LoadedFile]))

LoadFromProguardCall ==
  LoadCall("load_from_proguard", LoadFromProguard(Loader, mapping_files[LoadedFile]))

NextLoad == LoadFromSrgCall \/ LoadFromCsvCall \/ LoadFromProguardCall

SpecLoad == InitLoad /\ [][NextLoad]_vars

(***************************************************************************)
(* Properties of the line-record parser (SpecLoad)                         *)
(***************************************************************************)
\* the whitespace-separated fields of the lines of the file on disk
FileFields == LET ls == Lines(mapping_files[LoadedFile]) IN [i \in 1..Len(ls) |-> SplitWs(ls[i])]

\* line i has the form 'CL: <obf> <canonical>'
IsClassRecord(f) == Len(f) = 3 /\ f[1] = "CL:"

\* line i has the form 'MD: <owner> <method> <desc> <owner> <method> <desc>'
IsMethodRecord(f) == Len(f) = 7 /\ f[1] = "MD:"

\* a line with tag that may set the entry of key again
MayRedefine(f, tag, key) == Len(f) >= 1 /\ StartsWith(f[1], tag) /\ key \in Range(f)

SrgExample == "CL: a com/example/Foo\nMD: a m ()V com/example/Foo run ()V\n"

\* C10: after load_from_srg every line 'CL: <obf> <canonical>' has given the
\* Class entry obf -> canonical and every line 'MD: ...' of six fields the
\* Method entry obfOwner.obfMethod -> canonicalOwner.canonicalMethod, the
\* last line of a key deciding; the two-line example gives its two entries
SrgRecordsLoaded ==
  ret.op = "load_from_srg" =>
    LET ff == FileFields
    IN /\ \A i \in 1..Len(ff) :
            IsClassRecord(ff[i]) =>
              /\ DictHas(mappings.classes, ff[i][2])
              /\ (\A j \in (i + 1)..Len(ff) : ~MayRedefine(ff[j], "CL:", ff[i][2]))
                   => DictGet(mappings.classes, ff[i][2], None) = ff[i][3]
       /\ \A i \in 1..Len(ff) :
            IsMethodRecord(ff[i]) =>
              LET key == ff[i][2] \o "." \o ff[i][3]
              IN /\ DictHas(mappings.methods, key)
                 /\ (\A j \in (i + 1)..Len(ff) :
                       ~(MayRedefine(ff[j], "MD:", ff[i][2]) /\ MayRedefine(ff[j], "MD:", ff[i][3])))
                      => DictGet(mappings.methods, key, None) = ff[i][5] \o "." \o ff[i][6]
       /\ mapping_files[LoadedFile] = SrgExample =>
            /\ DictGet(mappings.classes, "a", None) = "com/example/Foo"
            /\ DictGet(mappings.methods, "a.m", None) = "com/example/Foo.run"

SrgExampleLoaded ==
  /\ ret.op = "load_from_srg"
  /\ mapping_files[LoadedFile] = SrgExample
  /\ mappings = [classes |-> <<[k |-> "a", v |-> "com/example/Foo"]>>,
                 methods |-> <<[k |-> "a.m", v |-> "com/example/Foo.run"]>>,
                 fields |-> <<>>]

(***************************************************************************)
(* Properties of the batch (Spec)                                          *)
(***************************************************************************)
\* the last call was a deobfuscate that got as far as its loop over the files
BatchRan == ret.op = "deobfuscate" /\ (ret.value # None \/ ret.raised # "")

\* the method names that Method keys of different owners map to different
\* canonical method names
AmbiguousNames(m) ==
  {BareMethod(m.methods[i].k) : i \in
     {i \in 1..Len(m.methods) : \E j \in 1..Len(m.methods) :
        /\ BareMethod(m.methods[j].k) = BareMethod(m.methods[i].k)
        /\ m.methods[j].k # m.methods[i].k
        /\ BareMethod(m.methods[j].v) # BareMethod(m.methods[i].v)}}

\* the number of call sites of name in a text: name as a whole token, then '('
CallSites(text, name) ==
  Cardinality({i \in 1..Len(text) :
                 MatchAt(<<B, Lit(name), So, Lit("(")>>, 1, text, i, <<0, 0>>).e > i})

\* C3: a method name that is ambiguous in the Method mapping is left as it
\* is at every call site of every file the batch rewrites
AmbiguousNameKept ==
  (BatchRan /\ ret.raised = "" /\ decompiled_dir # deobfuscated_dir) =>
     \A p \in RelPaths :
        fs[decompiled_dir][p].kind = "file" =>
          \A n \in AmbiguousNames(mappings) :
             CallSites(fs[deobfuscated_dir][p].text, n) = CallSites(fs[decompiled_dir][p].text, n)

\* C5: a batch does not raise, and writes the output of every readable file
\* of the tree whatever happened to the other files
BatchResilient ==
  BatchRan =>
    /\ ret.raised = ""
    /\ decompiled_dir # deobfuscated_dir =>
         \A p \in RelPaths :
            fs[decompiled_dir][p].kind = "file" => fs[deobfuscated_dir][p].kind # "none"

(***************************************************************************)
(* Properties of the three parsers (SpecLoad)                              *)
(***************************************************************************)
Kinds == {"classes", "methods", "fields"}

\* the lines the loop of the parser op runs over
LinesOf(op, text) == IF op = "load_from_csv" THEN CsvLines(text) ELSE Lines(text)

\* the state the loop of the parser op starts with, on the loader l
StartOf(op, l) ==
  IF op = "load_from_proguard" THEN [m |-> l.m, cur |-> ""] ELSE l

\* the body of the loop of the parser op for line i
LineOp(op, st, lines, i) ==
  CASE op = "load_from_srg" -> SrgLine(st, lines[i])
    [] op = "load_from_proguard" -> ProguardLine(st, lines[i])
    [] op = "load_from_csv" ->
         IF i = 1 THEN st ELSE CsvLine(st, CsvRow(lines[1]), lines[i])

\* the state of the loop when it reaches line i
RECURSIVE StateBefore(_, _, _, _)
StateBefore(op, st, lines, i) ==
  IF i = 1 THEN st ELSE LineOp(op, StateBefore(op, st, lines, i - 1), lines, i - 1)

\* the entries of one kind that line i defines: what the line adds to a
\* dict of that kind that holds nothing yet
DefinedBy(op, st, lines, i, kind) ==
  LineOp(op, [StateBefore(op, st, lines, i) EXCEPT !.m[kind] = <<>>], lines, i).m[kind]

\* what every line of the file defines, line by line and kind by kind,
\* walking the loop once from line i with the state st it has there
RECURSIVE DefinedFrom(_, _, _, _)
DefinedFrom(op, st, lines, i) ==
  IF i > Len(lines) THEN <<>>
  ELSE << [classes |-> LineOp(op, [st EXCEPT !.m.classes = <<>>], lines, i).m.classes,
           methods |-> LineOp(op, [st EXCEPT !.m.methods = <<>>], lines, i).m.methods,
           fields |-> LineOp(op, [st EXCEPT !.m.fields = <<>>], lines, i).m.fields] >>
       \o DefinedFrom(op, LineOp(op, st, lines, i), lines, i + 1)

\* the last line that defines key in kind, 0 when no line does
LastDefining(defs, kind, key) ==
  LET I == {i \in 1..Len(defs) : DictHas(defs[i][kind], key)}
  IN IF I = {} THEN 0 ELSE CHOOSE i \in I : \A j \in I : j <= i

DistinctKeys(d) == \A i, j \in 1..Len(d) : d[i].k = d[j].k => i = j

\* the keys a load can touch: those of the table before and after it
KeysOf(d) == {d[i].k : i \in 1..Len(d)}

\* C11: a load leaves every key of every kind with one value: the value of
\* the last line of the file that defines the key, or, when no line defines
\* it, the value it had before the load (no value when it had none)
LastWriteWins ==
  [][ \A defs \in {DefinedFrom(ret'.op, StartOf(ret'.op, Loader),
                               LinesOf(ret'.op, mapping_files[LoadedFile]), 1)} :
        \A kind \in Kinds :
           /\ DistinctKeys(mappings'[kind])
           /\ \A key \in KeysOf(mappings[kind]) \cup KeysOf(mappings'[kind])
                       \cup UNION {KeysOf(defs[i][kind]) : i \in 1..Len(defs)} :
                LET last == LastDefining(defs, kind, key)
                IN IF last = 0
                   THEN /\ DictHas(mappings'[kind], key) = DictHas(mappings[kind], key)
                        /\ DictGet(mappings'[kind], key, None) = DictGet(mappings[kind], key, None)
                   ELSE /\ DictHas(mappings'[kind], key)
                        /\ DictGet(mappings'[kind], key, None)
                             = DictGet(defs[last][kind], key, None)
    ]_vars

\* a file whose two lines define the same key: the second line decided
KeyRedefined ==
  /\ ret.op = "load_from_srg"
  /\ mapping_files[LoadedFile] = "CL: a com/example/Foo\nCL: a Bar\n"
  /\ mappings.classes = <<[k |-> "a", v |-> "Bar"]>>

LoadOps == {"load_from_srg", "load_from_csv", "load_from_proguard"}

\* a blank line or a comment line
Meaningless(line) ==
  LET l == Strip(line, SpaceChars) IN l = "" \/ StartsWith(l, "#")

\* 'FD: <obfOwner>/<obfField> <canonicalOwner>/<canonicalField>'
IsFieldRecord(f) == Len(f) = 3 /\ f[1] = "FD:"

\* a class header line of the hierarchical grammar
IsHeader(line) ==
  LET l == Strip(line, SpaceChars)
  IN Len(SplitOn(l, " -> ")) = 2 /\ EndsWith(l, ":")

\* line i is a record of the grammar the parser op reads
WellFormed(op, lines, i) ==
  CASE op = "load_from_srg" ->
         LET f == SplitWs(lines[i])
         IN IsClassRecord(f) \/ IsMethodRecord(f) \/ IsFieldRecord(f)
    [] op = "load_from_proguard" ->
         \/ IsHeader(lines[i])
         \/ /\ Len(SplitOn(Strip(lines[i], SpaceChars), " -> ")) = 2
            /\ \E j \in 1..(i - 1) : IsHeader(lines[j])
    [] op = "load_from_csv" ->
         \/ i = 1
         \/ /\ RowHas(CsvRow(lines[1]), "obfuscated")
            /\ RowHas(CsvRow(lines[1]), "mapped")
            /\ Len(CsvRow(lines[i])) = Len(CsvRow(lines[1]))

\* the lines of the file that are neither blank, comment nor record
MalformedLines(op, lines) ==
  {i \in 1..Len(lines) : ~Meaningless(lines[i]) /\ ~WellFormed(op, lines, i)}

\* C12: a load of any file does not fail, the table of a fresh loader holds
\* afterwards the entries of the well-formed lines and no other, and the
\* number of skipped malformed lines is recorded
BestEffortParsing ==
  (ret.op \in LoadOps /\ calls = 1) =>
    LET lines == LinesOf(ret.op, mapping_files[LoadedFile])
        st == StartOf(ret.op, [m |-> EmptyMappings, r |-> EmptyMappings])
        good == {i \in 1..Len(lines) : ~Meaningless(lines[i]) /\ WellFormed(ret.op, lines, i)}
    IN /\ ret.raised = ""
       /\ \A kind \in Kinds :
            KeysOf(mappings[kind])
              = UNION {KeysOf(DefinedBy(ret.op, st, lines, i, kind)) : i \in good}
       /\ ret.count = Cardinality(MalformedLines(ret.op, lines))

\* C13: in every parser a blank line and a comment line leave the state of
\* the loop (the three dicts and current_class) as it was
BlankAndCommentSkipped ==
  (ret.op \in LoadOps /\ calls = 1) =>
    LET lines == LinesOf(ret.op, mapping_files[LoadedFile])
        st == StartOf(ret.op, [m |-> EmptyMappings, r |-> EmptyMappings])
    IN /\ mappings = StateBefore(ret.op, st, lines, Len(lines) + 1).m
       /\ \A i \in 1..Len(lines) :
            Meaningless(lines[i]) =>
              LineOp(ret.op, StateBefore(ret.op, st, lines, i), lines, i)
                = StateBefore(ret.op, st, lines, i)

(***************************************************************************)
(* Properties of the tabular parser (SpecLoad)                             *)
(***************************************************************************)
\* the dict a type value names
KindOf(type) ==
  CASE type = "class" -> "classes"
    [] type = "method" -> "methods"
    [] type = "field" -> "fields"
    [] OTHER -> "none"

\* the type value of a data row: "class" when the header has no type column
\* or the row has no cell in it
TypeValue(fieldnames, row) ==
  IF ~RowHas(fieldnames, "type") \/ RowGet(fieldnames, row, "type") \in {None, ""}
  THEN "class"
  ELSE RowGet(fieldnames, row, "type")

\* a data row with a cell in the obfuscated and in the mapped column
HasBothColumns(fieldnames, row) ==
  /\ RowHas(fieldnames, "obfuscated") /\ RowHas(fieldnames, "mapped")
  /\ RowGet(fieldnames, row, "obfuscated") # None
  /\ RowGet(fieldnames, row, "mapped") # None

\* C14: after load_from_csv every data row with the obfuscated and mapped
\* columns has its entry obfuscated -> mapped in the dict its type value
\* names, a row without type value in the Class dict, unless a later row
\* sets the same key of that dict again
TabularRowsLoaded ==
  (ret.op = "load_from_csv" /\ calls = 1) =>
    LET lines == CsvLines(mapping_files[LoadedFile])
        fieldnames == CsvRow(lines[1])
        kind(i) == KindOf(TypeValue(fieldnames, CsvRow(lines[i])))
        obf(i) == RowGet(fieldnames, CsvRow(lines[i]), "obfuscated")
    IN \A i \in 2..Len(lines) :
         ( /\ HasBothColumns(fieldnames, CsvRow(lines[i]))
           /\ kind(i) \in Kinds
           /\ \A j \in (i + 1)..Len(lines) :
                ~(HasBothColumns(fieldnames, CsvRow(lines[j])) /\ kind(j) = kind(i) /\ obf(j) = obf(i)) )
         => /\ DictHas(mappings[kind(i)], obf(i))
            /\ DictGet(mappings[kind(i)], obf(i), None)
                 = RowGet(fieldnames, CsvRow(lines[i]), "mapped")

(***************************************************************************)
(* Properties of the hierarchical parser (SpecLoad)                        *)
(***************************************************************************)
\* the two sides of a line '<left> -> <right>'
Sides(line) == SplitOn(Strip(line, SpaceChars), " -> ")

\* a member line '<type> <name>(<args>) -> <obf>'
IsMethodLine(line) ==
  /\ ~Meaningless(line)
  /\ ~IsHeader(line)
  /\ Len(Sides(line)) = 2
  /\ Contains(Sides(line)[1], "(")
  /\ SplitWs(SplitOn(Sides(line)[1], "(")[1]) # <<>>

\* the header line that line i stands under, 0 when there is none
HeaderOf(lines, i) ==
  LET H == {h \in 1..(i - 1) : IsHeader(lines[h])}
  IN IF H = {} THEN 0 ELSE CHOOSE h \in H : \A g \in H : g <= h

\* the key 'O.obf' of the method line i under its header
MethodKeyOf(lines, i) ==
  Strip(Sides(lines[HeaderOf(lines, i)])[2], {"'", " ", ":"}) \o "."
    \o Strip(Sides(lines[i])[2], SpaceChars)

\* the method name of a method line: the last token in front of '('
MethodNameOf(line) == Last(SplitWs(SplitOn(Sides(line)[1], "(")[1]))

\* C15: after load_from_proguard a method line under the header 'C -> O:'
\* has the Method entry O.obf -> C.name, name being the method name without
\* the return type, unless a later method line has the same key
HierarchicalMethodNames ==
  (ret.op = "load_from_proguard" /\ calls = 1) =>
    LET lines == Lines(mapping_files[LoadedFile])
    IN \A i \in 1..Len(lines) :
         ( /\ IsMethodLine(lines[i])
           /\ HeaderOf(lines, i) # 0
           /\ \A j \in (i + 1)..Len(lines) :
                IsMethodLine(lines[j]) => MethodKeyOf(lines, j) # MethodKeyOf(lines, i) )
         => DictGet(mappings.methods, MethodKeyOf(lines, i), None)
              = Strip(Sides(lines[HeaderOf(lines, i)])[1], {"'"}) \o "." \o MethodNameOf(lines[i])

(***************************************************************************)
(* Properties of load_mappings and deobfuscate (Spec)                      *)
(***************************************************************************)
\* the hierarchical grammar matches some line of the text
HierarchicalMatches(text) ==
  LoadFromProguard([m |-> EmptyMappings, r |-> EmptyMappings], text).m # EmptyMappings

\* the load of a file by the grammar its name selects: .srg line-record,
\* .csv tabular, every other name hierarchical and, when that matches no
\* line, line-record
LoadBySelection(st, files, mappings_file) ==
  LET text == files[mappings_file]
  IN IF EndsWith(mappings_file, ".srg") THEN LoadFromSrg(st, text)
     ELSE IF EndsWith(mappings_file, ".csv") THEN LoadFromCsv(st, text)
     ELSE IF HierarchicalMatches(text) THEN LoadFromProguard(st, text)
     ELSE LoadFromSrg(st, text)

\* C16: a deobfuscate call that finds its mapping file loads it with the
\* grammar the file name selects, files of other names with the
\* hierarchical grammar first and the line-record grammar as fallback
FormatSelection ==
  [][ \A mappings_file \in DOMAIN mapping_files, output_dir \in OutputDirs :
        (decompiled_dir # None /\ Deobfuscate(mappings_file, output_dir)) =>
           mappings' = LoadBySelection([m |-> mappings, r |-> reverse_mappings],
                                       mapping_files, mappings_file).m
    ]_vars

\* no line of the text parses under any of the three grammars
WhollyUnparseable(text) ==
  LET fresh == [m |-> EmptyMappings, r |-> EmptyMappings]
  IN /\ LoadFromSrg(fresh, text).m = EmptyMappings
     /\ LoadFromCsv(fresh, text).m = EmptyMappings
     /\ LoadFromProguard(fresh, text).m = EmptyMappings

\* C17: a deobfuscate call whose mapping file is missing or wholly
\* unparseable returns None and leaves every file as it is
LoadFailureSurfaced ==
  [][ \A mappings_file \in DOMAIN mapping_files \cup {MissingFile}, output_dir \in OutputDirs :
        ( /\ decompiled_dir # None
          /\ Deobfuscate(mappings_file, output_dir)
          /\ \/ mappings_file \notin DOMAIN mapping_files
             \/ WhollyUnparseable(mapping_files[mappings_file]) )
        => (ret'.value = None /\ ret'.raised = "" /\ fs' = fs)
    ]_vars

\* C18: a deobfuscate call that completes leaves, for every source file at
\* a relative path under decompiled_dir, a file at the same relative path
\* under deobfuscated_dir that holds the rewritten text of the source file,
\* changed or not, and counts the files whose text the rewriting changed
Mirrored ==
  [][ (ret'.op = "deobfuscate" /\ ret'.value # None) =>
        /\ \A p \in RelPaths :
             fs[decompiled_dir][p].kind = "file" =>
               fs'[deobfuscated_dir'][p]
                 = File(RewriteText(fs[decompiled_dir][p].text, mappings').content)
        /\ ret'.count = Cardinality({p \in RelPaths :
                                       /\ fs[decompiled_dir][p].kind = "file"
                                       /\ fs'[deobfuscated_dir'][p].text # fs[decompiled_dir][p].text})
    ]_vars

\* a tree of two files, one of them in a subdirectory, mirrored to another
\* directory: one file changed, the other written unchanged
MirroredTree ==
  /\ ret.op = "deobfuscate" /\ ret.value # None /\ ret.count = 1
  /\ decompiled_dir # deobfuscated_dir
  /\ fs[decompiled_dir]["A.java"] = File("x();")
  /\ fs[deobfuscated_dir]["A.java"] = File("x();")
  /\ fs[decompiled_dir]["p/B.java"] = File("a m();")
  /\ fs[deobfuscated_dir]["p/B.java"] = File("Foo m();")

(***************************************************************************)
(* main() of src/_internal/src/mod_deobfuscator.py: the command line is    *)
(* parsed, the ModDeobfuscator is built and the pipeline runs on it. The   *)
(* position of main is read from ret.op; argv is <<>> in the other         *)
(* specifications, where no main step is enabled                           *)
(***************************************************************************)
\* number of options on a generated command line
MaxOptions == 2

Script == "mod_deobfuscator.py"

JarArg == JarStem \o ".jar"

\* VersionDetector raised an exception
Raises == "<raise>"

\* what detect() gives for the JAR
Detections == {None, "1.12.2", DefaultVersion, Raises}

\* an option of the command line, with or without its value
OptionGroups ==
  { <<"--mc-version", "1.12.2">>, <<"--mc-version">>, <<"--output", "out">>,
    <<"--analyze">>, <<"--no-auto-download">>, <<"--no-specialsource">> }

RECURSIVE OptionsUpTo(_)
OptionsUpTo(n) ==
  IF n = 0 THEN {<<>>}
  ELSE LET O == OptionsUpTo(n - 1) IN O \cup {o \o g : o \in O, g \in OptionGroups}

\* the mappings argument: absent, or the name of a mapping file
MapArgs == {<<>>, <<"m.srg">>, <<"m.csv">>}

CommandLines ==
  {<<Script>>} \cup {<<Script, JarArg>> \o f \o o : f \in MapArgs, o \in OptionsUpTo(MaxOptions)}

\* the option loop of main from position i of argv (argv[1] is the script,
\* so sys.argv[2] is argv[3])
RECURSIVE ParseFrom(_, _, _)
ParseFrom(o, a, i) ==
  IF i > Len(a) THEN o
  ELSE IF a[i] = "--decompiler" /\ i + 1 <= Len(a)
       THEN ParseFrom([o EXCEPT !.decompiler = a[i + 1]], a, i + 2)
  ELSE IF a[i] = "--decompiler-path" /\ i + 1 <= Len(a)
       THEN ParseFrom([o EXCEPT !.decompiler_path = a[i + 1]], a, i + 2)
  ELSE IF a[i] = "--mc-version" /\ i + 1 <= Len(a)
       THEN ParseFrom([o EXCEPT !.mc_version = a[i + 1]], a, i + 2)
  ELSE IF a[i] = "--output" /\ i + 1 <= Len(a)
       THEN ParseFrom([o EXCEPT !.output_dir = a[i + 1]], a, i + 2)
  ELSE IF a[i] = "--analyze"
       THEN ParseFrom([o EXCEPT !.analyze = TRUE], a, i + 1)
  ELSE IF a[i] = "--use-specialsource"
       THEN ParseFrom([o EXCEPT !.use_specialsource = TRUE], a, i + 1)
  ELSE IF a[i] = "--no-specialsource"
       THEN ParseFrom([o EXCEPT !.use_specialsource = FALSE], a, i + 1)
  ELSE ParseFrom(o, a, i + 1)

\* the options of main after the loop, from their defaults
MainOptions(a) ==
  ParseFrom([decompiler |-> "cfr", decompiler_path |-> None, mc_version |-> DefaultVersion,
             output_dir |-> None, analyze |-> FALSE, use_specialsource |-> TRUE], a, 3)

\* mappings_file of main: sys.argv[2] unless it starts with --
MappingsArg(a) == IF Len(a) > 2 /\ ~StartsWith(a[3], "--") THEN a[3] ELSE None

\* auto_download of main
AutoDownload(a) == \A i \in 1..Len(a) : a[i] # "--no-auto-download"

\* ModDeobfuscator.__init__: the value of self.mc_version, det being what
\* VersionDetector gives
Construct(version, auto_detect_version, det) ==
  IF version = None /\ auto_detect_version
  THEN IF det = Raises THEN DefaultVersion
       ELSE IF det \notin {None, ""} THEN det
       ELSE DefaultVersion
  ELSE IF version \in {None, ""} THEN DefaultVersion ELSE version

\* what MappingsDownloader.get_mappings leaves: a mapping file or nothing
Downloads == {"m.srg", MissingFile}

\* the mapping files the deobfuscate call of main can end up loading: the
\* given one, or a downloaded one when none is given or it does not exist
MappingsFor(a) ==
  IF MappingsArg(a) # None /\ (MappingsArg(a) \in DOMAIN mapping_files \/ ~AutoDownload(a))
  THEN {MappingsArg(a)}
  ELSE Downloads

InitMain ==
  /\ mappings = EmptyMappings
  /\ reverse_mappings = EmptyMappings
  /\ decompiled_dir = None
  /\ deobfuscated_dir = None
  /\ fs = [d \in DirNames |-> EmptyDir]
  /\ mapping_files = MapFiles
  /\ calls = 0
  /\ ret = Ret("init", None, "", 0)
  /\ mc_version = None
  /\ argv \in CommandLines
  /\ detected \in Detections

\* main without a JAR argument: the usage text and sys.exit(1)
MainUsage ==
  /\ argv # <<>>
  /\ Len(argv) < 2
  /\ ret.op = "init"
  /\ ret' = Ret("main", None, "SystemExit", 0)
  /\ UNCHANGED <<mappings, reverse_mappings, decompiled_dir, deobfuscated_dir, fs,
                 mapping_files, calls, mc_version, argv, detected>>

\* main up to ModDeobfuscator(jar_path, mc_version, auto_detect_version=True)
MainBuild ==
  /\ Len(argv) >= 2
  /\ ret.op = "init"
  /\ mc_version' = Construct(MainOptions(argv).mc_version, TRUE, detected)
  /\ ret' = Ret("ModDeobfuscator", None, "", 0)
  /\ UNCHANGED <<mappings, reverse_mappings, decompiled_dir, deobfuscated_dir, fs,
                 mapping_files, calls, argv, detected>>

\* SpecialSource gave a remapped JAR (the tool may as well be missing or
\* fail, and then main goes on with the object it has): a new
\* ModDeobfuscator(jar_to_decompile, mc_version, auto_detect_version=False)
MainRemap ==
  /\ Len(argv) >= 2
  /\ ret.op = "ModDeobfuscator"
  /\ MainOptions(argv).use_specialsource
  /\ MappingsArg(argv) # None \/ AutoDownload(argv)
  /\ mc_version' = Construct(MainOptions(argv).mc_version, FALSE, detected)
  /\ ret' = Ret("apply_mappings_with_specialsource", None, "", 0)
  /\ UNCHANGED <<mappings, reverse_mappings, decompiled_dir, deobfuscated_dir, fs,
                 mapping_files, calls, argv, detected>>

\* deobfuscator.decompile(decompiler, decompiler_path, output_dir)
MainDecompile ==
  /\ Len(argv) >= 2
  /\ ret.op \in {"ModDeobfuscator", "apply_mappings_with_specialsource"}
  /\ Decompile(MainOptions(argv).output_dir)

\* deobfuscator.deobfuscate(mappings_file, output_dir), when there is a
\* mappings file or auto_download is on
MainDeobfuscate ==
  /\ Len(argv) >= 2
  /\ ret.op = "decompile"
  /\ MappingsArg(argv) # None \/ AutoDownload(argv)
  /\ \E mappings_file \in MappingsFor(argv) :
       Deobfuscate(mappings_file, MainOptions(argv).output_dir)

\* deobfuscator.analyze_deobfuscated() under --analyze
MainAnalyze ==
  /\ Len(argv) >= 2
  /\ ret.op = "deobfuscate"
  /\ ret.raised = ""
  /\ MainOptions(argv).analyze
  /\ ret' = Findings
  /\ UNCHANGED <<mappings, reverse_mappings, decompiled_dir, deobfuscated_dir, fs,
                 mapping_files, calls, mc_version, argv, detected>>

\* the except clause of main: an exception of the pipeline ends in
\* sys.exit(1)
MainExcept ==
  /\ Len(argv) >= 2
  /\ ret.op = "deobfuscate"
  /\ ret.raised # ""
  /\ ret' = Ret("main", None, "SystemExit", 0)
  /\ UNCHANGED <<mappings, reverse_mappings, decompiled_dir, deobfuscated_dir, fs,
                 mapping_files, calls, mc_version, argv, detected>>

NextMain ==
  \/ MainUsage
  \/ MainBuild
  \/ MainRemap
  \/ MainDecompile
  \/ MainDeobfuscate
  \/ MainAnalyze
  \/ MainExcept

SpecMain == InitMain /\ [][NextMain]_vars

(***************************************************************************)
(* Properties of main (SpecMain)                                           *)
(***************************************************************************)
\* C19: when main has built the ModDeobfuscator from a command line with no
\* --mc-version option, the version of the object is the one detected from
\* the JAR, and 1.8.9 only when detection gave nothing or failed
VersionAutoDetected ==
  (ret.op = "ModDeobfuscator" /\ \A i \in 1..Len(argv) : argv[i] # "--mc-version") =>
    mc_version = IF detected \in {None, "", Raises} THEN DefaultVersion ELSE detected

(***************************************************************************)
(* Properties of the method loop of the rewriter in a batch (Spec)         *)
(***************************************************************************)
\* the method-name component of a Method key or value: what follows its
\* last '.'
MethodComponent(key) == Last(SplitOn(key, "."))

\* token i of text is followed by '(', whitespace apart, and does not
\* directly follow class, extends, implements or new
CallPosition(text, i) ==
  LET sp == Spans(text)
      tin == Tokens(text)
  IN /\ Ch(text, sp[i].e + 1 + Run(text, sp[i].e + 1, SpaceChars)) = "("
     /\ ~(i > 1 /\ tin[i - 1] \in TypeKeywords /\ Blank(text, sp[i - 1].e + 1, sp[i].b - 1))

\* C21: in a batch that completes, a call-position token that is the
\* method-name component m of Method entries O.m -> C.r is replaced by the
\* bare name r of one of them, and nothing of an owner name is inserted: the
\* output has the tokens of the text the class loop leaves, with r in the
\* place of m
BareNameLookup ==
  [][ (ret'.op = "deobfuscate" /\ ret'.value # None) =>
        \A p \in RelPaths :
          fs[decompiled_dir][p].kind = "file" =>
            LET text == ApplyClasses(fs[decompiled_dir][p].text, mappings'.classes, 1).content
                tin == Tokens(text)
                tout == Tokens(fs'[deobfuscated_dir'][p].text)
                ms == mappings'.methods
            IN \A i \in 1..Len(tin) :
                 LET R == {MethodComponent(ms[j].v) :
                             j \in {j \in 1..Len(ms) : MethodComponent(ms[j].k) = tin[i]}}
                 IN (R # {} /\ CallPosition(text, i)) =>
                      (Len(tout) = Len(tin) /\ tout[i] \in R)
    ]_vars

(***************************************************************************)
(* Properties of the class loop of the rewriter in a batch (Spec)          *)
(***************************************************************************)
\* token i of text directly follows class, extends, implements or new, or
\* is directly followed by whitespace and an identifier
TypePosition(text, i) ==
  LET sp == Spans(text)
      tin == Tokens(text)
  IN \/ i > 1 /\ tin[i - 1] \in TypeKeywords /\ Blank(text, sp[i - 1].e + 1, sp[i].b - 1)
     \/ i < Len(tin) /\ Blank(text, sp[i].e + 1, sp[i + 1].b - 1)

\* v stands in s as a piece of text with no identifier character on either
\* side of it
StandsIn(s, v) ==
  \E pos \in 1..Len(s) :
    /\ pos + Len(v) - 1 <= Len(s)
    /\ SubSeq(s, pos, pos + Len(v) - 1) = v
    /\ ~IsWord(Ch(s, pos - 1))
    /\ ~IsWord(Ch(s, pos + Len(v)))

\* C22: in a batch that completes, a Class key in a type or type-reference
\* position of a source file is replaced by exactly the canonical value the
\* table holds for it, package-qualified or not: the value stands in the
\* output file
CanonicalValueWritten ==
  [][ (ret'.op = "deobfuscate" /\ ret'.value # None) =>
        \A p \in RelPaths :
          fs[decompiled_dir][p].kind = "file" =>
            LET text == fs[decompiled_dir][p].text
                tin == Tokens(text)
            IN \A i \in 1..Len(tin) :
                 (DictHas(mappings'.classes, tin[i]) /\ TypePosition(text, i)) =>
                   StandsIn(fs'[deobfuscated_dir'][p].text,
                            DictGet(mappings'.classes, tin[i], ""))
    ]_vars

(***************************************************************************)
(* Properties of the class context of the hierarchical parser (SpecLoad)   *)
(***************************************************************************)
\* the obfuscated class of the header line that line i stands under
OwnerOf(lines, i) == Strip(Sides(lines[HeaderOf(lines, i)])[2], {"'", " ", ":"})

\* a line '<original> -> <obfuscated>' that is no header
IsMemberLine(line) == ~Meaningless(line) /\ ~IsHeader(line) /\ Len(Sides(line)) = 2

\* C23: in load_from_proguard every Method or Field entry that a line
\* produces has as owner the obfuscated class of the most recent header
\* line before it, and is in the table afterwards; a line with no header
\* before it produces no entry; a member line under a header produces its
\* entry with the owner of that header
ClassContext ==
  ret.op = "load_from_proguard" =>
    LET lines == Lines(mapping_files[LoadedFile])
        defs == DefinedFrom("load_from_proguard", [m |-> EmptyMappings, cur |-> ""], lines, 1)
    IN \A i \in 1..Len(lines) :
         /\ \A j \in 1..Len(defs[i].methods) :
              /\ HeaderOf(lines, i) # 0
              /\ defs[i].methods[j].k
                   = OwnerOf(lines, i) \o "." \o Strip(Sides(lines[i])[2], SpaceChars)
              /\ DictHas(mappings.methods, defs[i].methods[j].k)
         /\ \A j \in 1..Len(defs[i].fields) :
              /\ HeaderOf(lines, i) # 0
              /\ defs[i].fields[j].k
                   = OwnerOf(lines, i) \o "/" \o Strip(Sides(lines[i])[2], SpaceChars)
              /\ DictHas(mappings.fields, defs[i].fields[j].k)
         /\ ( /\ IsMemberLine(lines[i])
              /\ HeaderOf(lines, i) # 0
              /\ OwnerOf(lines, i) # "" )
            => IF Contains(Sides(lines[i])[1], "(")
               THEN DictHas(mappings.methods,
                            OwnerOf(lines, i) \o "." \o Strip(Sides(lines[i])[2], SpaceChars))
               ELSE Contains(lines[i], "(")
                    \/ DictHas(mappings.fields,
                               OwnerOf(lines, i) \o "/" \o Strip(Sides(lines[i])[2], SpaceChars))

\* the file of two classes was loaded: the member line in front of the
\* first header gave nothing, the others stand under their own class
ContextFollowed ==
  /\ ret.op = "load_from_proguard"
  /\ calls = 1
  /\ mapping_files[LoadedFile] = ContextExample
  /\ mappings.methods = <<[k |-> "a.m", v |-> "X.run"], [k |-> "b.m", v |-> "Y.go"]>>
  /\ mappings.fields = <<[k |-> "b/g", v |-> "Y/f"]>>

(***************************************************************************)
(* Properties of a batch with a table of the tabular grammar (Spec)        *)
(***************************************************************************)
\* C24: a batch with a table loaded from a tabular file, Method rows
\* included, over a tree with no unreadable file completes without an
\* exception; with the one Method row m -> run the call m( is rewritten to
\* run(
TabularMethodsApplied ==
  [][ \A mappings_file \in DOMAIN mapping_files, output_dir \in OutputDirs :
        ( /\ EndsWith(mappings_file, ".csv")
          /\ decompiled_dir # None
          /\ \A d \in DirNames, p \in RelPaths : fs[d][p].kind # "noaccess"
          /\ Deobfuscate(mappings_file, output_dir) )
        => /\ ret'.raised = ""
           /\ \A p \in RelPaths :
                ( /\ fs[decompiled_dir][p] = File("a m();")
                  /\ mappings'.classes = <<>>
                  /\ mappings'.methods = <<[k |-> "m", v |-> "run"]>> )
                => fs'[deobfuscated_dir'][p] = File("a run();")
    ]_vars

(***************************************************************************)
(* Properties of reverse_mappings (SpecLoad)                               *)
(***************************************************************************)
\* C28: after the lines of a file have been loaded by load_from_srg into a
\* fresh loader, every entry m -> o of reverse_mappings of a kind has the
\* forward entry o -> m of the same kind
ReverseConsistent ==
  (ret.op = "load_from_srg" /\ calls = 1) =>
    \A kind \in Kinds :
      \A i \in 1..Len(reverse_mappings[kind]) :
        LET e == reverse_mappings[kind][i]
        IN DictHas(mappings[kind], e.v) /\ DictGet(mappings[kind], e.v, None) = e.k

(***************************************************************************)
(* The pipeline of one ModDeobfuscator from the object as it was built or  *)
(* as a decompile call left it (SpecPipeline)                              *)
(***************************************************************************)
\* a tree a decompile call left in the default directory
DecompiledTree ==
  [p \in RelPaths |-> IF p = RelPathList[1] THEN File(SourceTexts[1])
                      ELSE IF p = RelPathList[2] THEN File(SourceTexts[2])
                      ELSE NoFile]

InitPipeline ==
  /\ mappings = EmptyMappings
  /\ reverse_mappings = EmptyMappings
  /\ deobfuscated_dir = None
  /\ mapping_files = MapFiles
  /\ calls = 0
  /\ NoCommandLine
  /\ \/ /\ decompiled_dir = None
        /\ fs = [d \in DirNames |-> EmptyDir]
        /\ ret = Ret("init", None, "", 0)
     \/ /\ decompiled_dir = DecompiledDefault
        /\ fs = [d \in DirNames |-> IF d = DecompiledDefault THEN DecompiledTree ELSE EmptyDir]
        /\ ret = Ret("decompile", DecompiledDefault, "", 0)

SpecPipeline == InitPipeline /\ [][Next]_vars

\* C29: deobfuscated_dir is set only by a deobfuscate call made when
\* decompiled_dir is set and with a mappings file that loads, and never
\* while decompiled_dir is unset; a deobfuscate call made before decompile
\* or with a mappings file that does not load returns None and leaves the
\* table, the files and deobfuscated_dir as they are; analyze_deobfuscated
\* returns findings exactly when deobfuscated_dir is set
PipelineOrdering ==
  [][ /\ deobfuscated_dir' # deobfuscated_dir =>
           /\ ret'.op = "deobfuscate"
           /\ decompiled_dir # None
      /\ deobfuscated_dir' # None => decompiled_dir' # None
      /\ (ret'.op = "deobfuscate" /\ decompiled_dir = None) =>
           /\ ret'.value = None
           /\ UNCHANGED <<mappings, reverse_mappings, fs, decompiled_dir, deobfuscated_dir>>
      /\ \A output_dir \in OutputDirs :
           (ret'.op = "deobfuscate" /\ Deobfuscate(MissingFile, output_dir)) =>
             /\ ret'.value = None
             /\ UNCHANGED <<mappings, reverse_mappings, fs, decompiled_dir, deobfuscated_dir>>
      /\ ret'.op = "analyze_deobfuscated" =>
           (ret'.value # None <=> deobfuscated_dir # None)
    ]_vars

\* analyze_deobfuscated gave findings after a deobfuscate call that followed
\* a decompile call
FindingsAfterPipeline ==
  /\ ret.op = "analyze_deobfuscated"
  /\ ret.value = "findings"
  /\ decompiled_dir # None
  /\ deobfuscated_dir # None

(***************************************************************************)
(* Properties of the directories of a run of main (SpecMain)               *)
(***************************************************************************)
\* C30: in a run of main, with or without --output, the deobfuscate call
\* writes to a directory other than the one the source files are read from
\* and leaves every file of the input tree as it is
InputKept ==
  [][ (ret'.op = "deobfuscate" /\ decompiled_dir # None) =>
        /\ deobfuscated_dir' # decompiled_dir
        /\ fs'[decompiled_dir] = fs[decompiled_dir]
    ]_vars

====
